---- MODULE Spec2Model ----
(***************************************************************************)
(* A model of run_benchmark.py: the start-up checks of __main__, the       *)
(* benchmark driver run_benchmarks, the fio report parser run_fio_test,    *)
(* the custom CSV write and read tests, and save_results_to_csv.           *)
(*                                                                         *)
(* Text is modelled as a sequence of one-character strings, so that the    *)
(* parser's split / replace / float steps and the record formatting of     *)
(* write_csv_test are computed the way the code computes them.             *)
(***************************************************************************)
EXTENDS Integers, Sequences, FiniteSets, TLC

VARIABLES
    \* ---- the fio report parser (run_fio_test on its own) ----
    fioLines,       \* the report handed to the parser, as a list of line descriptions
    fioRes,         \* what run_fio_test did with it: a return value or a raised error
    \* ---- the custom CSV file tests on their own (byte level) ----
    wTarget,        \* size_in_bytes
    wpc,            \* position inside write_csv_test
    wFile,          \* the file on disk: whether it exists, and its bytes
    wHandle,        \* "closed" or "w": the handle the running call holds
    bytes_written,  \* the running byte counter of write_csv_test
    wi,             \* the record index i of write_csv_test
    wPrevBytes,     \* the byte counter as it was tested before the last record
    wStat,          \* st_size as read by the last stat() call
    \* ---- the whole program ----
    pc,             \* position of the process
    exitStatus,     \* process exit status, or NoExit while it runs
    exc,            \* the uncaught exception that ended the process, or "none"
    env,            \* the host: platform name, state of the fio tool, apt's behaviour
    installAttempts,\* number of times the apt install command was launched
    reported,       \* whether an ERROR message was printed to the operator
    config,         \* the loaded configuration, or NoConfig
    dirMade,        \* whether this invocation ran test_dir.mkdir
    files,          \* the working directory: file name -> content, or Absent
    all_results,    \* the in-memory result sequence
    sizeIdx,        \* position in sizes of the outer loop
    run,            \* the inner loop's run (0-based, as range() gives it)
    fioOut,         \* the report fio printed per access pattern in this invocation
    fioLaunched,    \* number of fio benchmark runs launched
    handle,         \* the file handle read_csv_test holds: a file name, or NoHandle
    readSnap,       \* the directory and results as read_csv_test found them
    saves,          \* number of times save_results_to_csv wrote the results file
    table           \* the rows of the results file written by this invocation

fioVars == <<fioLines, fioRes>>
csvVars == <<wTarget, wpc, wFile, wHandle, bytes_written, wi, wPrevBytes, wStat>>
mainVars == <<pc, exitStatus, exc, env, installAttempts, reported, config, dirMade,
              files, all_results, sizeIdx, run, fioOut, fioLaunched, handle,
              readSnap, saves, table>>
vars == <<fioVars, csvVars, mainVars>>

(***************************************************************************)
(* Text helpers: Python's str operations on sequences of characters.       *)
(***************************************************************************)
Digits == <<"0", "1", "2", "3", "4", "5", "6", "7", "8", "9">>

IsWs(c) == c \in {" ", "\t", "\n"}

\* s.find(pat) + 1: the first position where pat occurs in s, 0 if none
Find(s, pat) ==
    LET hits == {k \in 1..(Len(s) - Len(pat) + 1) : SubSeq(s, k, k + Len(pat) - 1) = pat}
    IN  IF hits = {} THEN 0 ELSE CHOOSE k \in hits : \A j \in hits : k <= j

\* pat in s
Contains(s, pat) == Find(s, pat) # 0

\* s.split(pat)
RECURSIVE Split(_, _)
Split(s, pat) ==
    LET k == Find(s, pat)
    IN  IF k = 0 THEN <<s>>
        ELSE <<SubSeq(s, 1, k - 1)>> \o Split(SubSeq(s, k + Len(pat), Len(s)), pat)

\* s.replace(old, new)
RECURSIVE Replace(_, _, _)
Replace(s, old, new) ==
    LET k == Find(s, old)
    IN  IF k = 0 THEN s
        ELSE SubSeq(s, 1, k - 1) \o new \o Replace(SubSeq(s, k + Len(old), Len(s)), old, new)

\* s.lstrip(), s.rstrip(), s.strip()
RECURSIVE LStrip(_)
LStrip(s) == IF s # <<>> /\ IsWs(Head(s)) THEN LStrip(Tail(s)) ELSE s

RECURSIVE RStrip(_)
RStrip(s) == IF s # <<>> /\ IsWs(s[Len(s)]) THEN RStrip(SubSeq(s, 1, Len(s) - 1)) ELSE s

Strip(s) == RStrip(LStrip(s))

\* s.split(): the whitespace-separated words of s, empty words dropped
RECURSIVE SplitWs(_)
SplitWs(s) ==
    LET t == LStrip(s)
        ws == {k \in 1..Len(t) : IsWs(t[k])}
        e == IF ws = {} THEN Len(t) + 1 ELSE CHOOSE k \in ws : \A j \in ws : k <= j
    IN  IF t = <<>> THEN <<>>
        ELSE <<SubSeq(t, 1, e - 1)>> \o SplitWs(SubSeq(t, e, Len(t)))

\* s.splitlines()
RECURSIVE SplitLines(_)
SplitLines(s) ==
    LET k == Find(s, <<"\n">>)
    IN  IF s = <<>> THEN <<>>
        ELSE IF k = 0 THEN <<s>>
        ELSE <<SubSeq(s, 1, k - 1)>> \o SplitLines(SubSeq(s, k + 1, Len(s)))

DigitVal(c) == (CHOOSE k \in 1..10 : Digits[k] = c) - 1

IsDigit(c) == \E k \in 1..10 : Digits[k] = c

RECURSIVE NatOf(_)
NatOf(ds) == IF ds = <<>> THEN 0
             ELSE 10 * NatOf(SubSeq(ds, 1, Len(ds) - 1)) + DigitVal(ds[Len(ds)])

RECURSIVE Pow10(_)
Pow10(n) == IF n = 0 THEN 1 ELSE 10 * Pow10(n - 1)

\* Values of float are kept in thousandths.
FloatScale == 10 * 10 * 10

\* float(s) for decimal numerals: digits with at most one point and at most
\* three digits after it.  ok = FALSE stands for ValueError.
ParseFloat(s) ==
    LET dot == Find(s, <<".">>)
        ip == IF dot = 0 THEN s ELSE SubSeq(s, 1, dot - 1)
        fp == IF dot = 0 THEN <<>> ELSE SubSeq(s, dot + 1, Len(s))
        wellFormed == /\ \A k \in 1..Len(ip) : IsDigit(ip[k])
                      /\ \A k \in 1..Len(fp) : IsDigit(fp[k])
                      /\ Len(ip) + Len(fp) > 0
                      /\ Len(fp) <= 3
    IN  IF wellFormed
        THEN [ok |-> TRUE,
              val |-> NatOf(ip) * FloatScale + NatOf(fp) * Pow10(3 - Len(fp))]
        ELSE [ok |-> FALSE, val |-> 0]

(***************************************************************************)
(* run_fio_test: the parse of fio's report.  A bandwidth is an integer     *)
(* number of 1/(FloatScale * 1000) MB/s, so that the factor 1024/1000 is   *)
(* exact.                                                                  *)
(***************************************************************************)
MibNum == 1024
MibDen == 1000

Ret(v) == [kind |-> "return", val |-> v]
Raise(e) == [kind |-> "raise", exc |-> e]

BWMarker == <<"B", "W", "=">>
MiB == <<"M", "i", "B">>
MB == <<"M", "B">>
PerS == <<"/", "s">>

\* A faulty variant of ParseBW: the MiB branch forgets the conversion factor.
ParseBW_NoConversion(line) ==
    LET toks == SplitWs(Split(line, BWMarker)[2])
        bw_value == Strip(Replace(toks[1], PerS, <<>>))
        asMiB == ParseFloat(Strip(Replace(bw_value, MiB, <<>>)))
        asMB == ParseFloat(Strip(Replace(bw_value, MB, <<>>)))
    IN  IF toks = <<>> THEN Raise("IndexError")
        ELSE IF Contains(bw_value, MiB)
             THEN IF asMiB.ok THEN Ret(asMiB.val * MibDen) ELSE Raise("ValueError")
        ELSE IF Contains(bw_value, MB)
             THEN IF asMB.ok THEN Ret(asMB.val * MibDen) ELSE Raise("ValueError")
        ELSE Raise("UnboundLocalError")

\* The body of `if "BW=" in line:` for a line that contains the marker.
ParseBW(line) ==
    LET toks == SplitWs(Split(line, BWMarker)[2])
        bw_value == Strip(Replace(toks[1], PerS, <<>>))
        asMiB == ParseFloat(Strip(Replace(bw_value, MiB, <<>>)))
        asMB == ParseFloat(Strip(Replace(bw_value, MB, <<>>)))
    IN  IF toks = <<>> THEN Raise("IndexError")
        ELSE IF Contains(bw_value, MiB)
             THEN IF asMiB.ok THEN Ret(asMiB.val * MibNum) ELSE Raise("ValueError")
        ELSE IF Contains(bw_value, MB)
             THEN IF asMB.ok THEN Ret(asMB.val * MibDen) ELSE Raise("ValueError")
        ELSE Raise("UnboundLocalError")   \* `return bandwidth` with bandwidth unbound

\* for line in output.splitlines(): ... ; return 0.0
RECURSIVE FioLoop(_, _)
FioLoop(lines, k) ==
    IF k > Len(lines) THEN Ret(0)
    ELSE IF Contains(lines[k], BWMarker) THEN ParseBW(lines[k])
    ELSE FioLoop(lines, k + 1)

run_fio_test(output) == FioLoop(SplitLines(output), 1)

(***************************************************************************)
(* The reports fio can print, described line by line and rendered to text. *)
(***************************************************************************)
MaxLines == 2

\* numerals and the value each denotes, in thousandths (-1: not a number)
Numerals == {[txt |-> <<"1", "2", ".", "3">>, milli |-> 12300],
             [txt |-> <<"7">>, milli |-> 7000],
             [txt |-> <<"x">>, milli |-> -1]}

Units == {<<"M", "i", "B">>, <<"M", "B">>, <<"K", "i", "B">>, <<>>}

LineSpecs ==
    [kind : {"bw"}, num : Numerals, unit : Units, tail : BOOLEAN]
    \cup [kind : {"status", "io", "bare"}, num : {[txt |-> <<>>, milli |-> -1]},
          unit : {<<>>}, tail : {FALSE}]

\* one line of the report, without its line terminator
RenderLine(ls) ==
    CASE ls.kind = "status" -> <<"f", "i", "o", "-", "3", ".", "2", "8">>
      [] ls.kind = "io"     -> <<" ", "i", "o", "=", "7", "3", "8", "M", "i", "B">>
      [] ls.kind = "bare"   -> <<" ", "B", "W", "=", " ">>
      [] ls.kind = "bw"     ->
            <<" ", "w", ":", " ">> \o BWMarker \o ls.num.txt \o ls.unit \o PerS
            \o (IF ls.tail THEN <<" ", "(", "9", "M", "B", "/", "s", ")">> ELSE <<>>)

RECURSIVE RenderOutput(_)
RenderOutput(specs) ==
    IF specs = <<>> THEN <<>>
    ELSE RenderLine(Head(specs)) \o <<"\n">> \o RenderOutput(Tail(specs))

SeqsUpTo(S, n) == UNION {[1..k -> S] : k \in 0..n}

(***************************************************************************)
(* write_csv_test at the level of bytes.                                   *)
(***************************************************************************)
MaxTarget == 125

\* str(i)
RECURSIVE Str(_)
Str(n) == IF n < 10 THEN <<Digits[n + 1]>> ELSE Str(n \div 10) \o <<Digits[(n % 10) + 1]>>

\* header = "id,name\n"
Header == <<"i", "d", ",", "n", "a", "m", "e", "\n">>

\* write_str = f"{i},sample_{i}\n"
WriteStr(i) == Str(i) \o <<",", "s", "a", "m", "p", "l", "e", "_">> \o Str(i) \o <<"\n">>

NoFile == [exists |-> FALSE, data |-> <<>>]
File(bytes) == [exists |-> TRUE, data |-> bytes]

\* filepath.open("w"): the file is created, or truncated if it exists
OpenW(old) == File(<<>>)

\* f.write(text)
FWrite(f, text) == File(f.data \o text)

\* A faulty variant of LoopCond: one more record when the counter equals the target.
LoopCond_Le(written, size_in_bytes) == written <= size_in_bytes

\* while bytes_written < size_in_bytes
LoopCond(written, size_in_bytes) == written < size_in_bytes

\* a file left behind by an earlier run: longer than what a small target produces
StaleCsv == Header \o WriteStr(0) \o WriteStr(1) \o <<"1", "2", ",", "s", "a">>

NoExit == 0 - 1
NoConfig == [loaded |-> FALSE, test_hw |-> "", sizes_mB |-> <<>>, num_runs |-> 0]
NoHandle == <<"", 0>>
EmptyDir == [n \in {} |-> 0]

InitMainIdle ==
    /\ pc = "off" /\ exitStatus = NoExit /\ exc = "none"
    /\ env = [platform |-> "Linux", fio |-> "ok", fio0 |-> "ok", stale |-> {}]
    /\ installAttempts = 0 /\ reported = FALSE /\ config = NoConfig /\ dirMade = FALSE
    /\ files = EmptyDir /\ all_results = <<>> /\ sizeIdx = 0 /\ run = 0
    /\ fioOut = EmptyDir /\ fioLaunched = 0 /\ handle = NoHandle
    /\ readSnap = [files |-> EmptyDir, results |-> <<>>]
    /\ saves = 0 /\ table = <<>>

NoRes == [kind |-> "none"]

InitFioIdle == fioLines = <<>> /\ fioRes = NoRes

InitCsvIdle ==
    /\ wTarget = 0 /\ wpc = "off" /\ wFile = NoFile /\ wHandle = "closed"
    /\ bytes_written = 0 /\ wi = 0 /\ wPrevBytes = 0 /\ wStat = 0

InitCsv ==
    /\ wTarget \in 0..MaxTarget
    /\ wFile \in {NoFile, File(StaleCsv)}
    /\ wpc = "idle" /\ wHandle = "closed"
    /\ bytes_written = 0 /\ wi = 0 /\ wPrevBytes = 0 /\ wStat = 0
    /\ InitFioIdle /\ InitMainIdle

\* start_time = ...; bytes_written = 0; with filepath.open("w") as f:
WCall ==
    /\ wpc \in {"idle", "returned"}
    /\ bytes_written' = 0
    /\ wFile' = OpenW(wFile)
    /\ wHandle' = "w"
    /\ wpc' = "header"
    /\ UNCHANGED <<wTarget, wi, wPrevBytes, wStat, fioVars, mainVars>>

\* f.write(header); bytes_written += len(header); i = 0
WHeader ==
    /\ wpc = "header"
    /\ wFile' = FWrite(wFile, Header)
    /\ bytes_written' = bytes_written + Len(Header)
    /\ wi' = 0
    /\ wPrevBytes' = 0
    /\ wpc' = "loop"
    /\ UNCHANGED <<wTarget, wHandle, wStat, fioVars, mainVars>>

\* one turn of the while loop
WRecord ==
    /\ wpc = "loop"
    /\ LoopCond(bytes_written, wTarget)
    /\ wFile' = FWrite(wFile, WriteStr(wi))
    /\ wPrevBytes' = bytes_written
    /\ bytes_written' = bytes_written + Len(WriteStr(wi))
    /\ wi' = wi + 1
    /\ UNCHANGED <<wTarget, wpc, wHandle, wStat, fioVars, mainVars>>

\* the loop ends and the with block closes the file
WClose ==
    /\ wpc = "loop"
    /\ ~LoopCond(bytes_written, wTarget)
    /\ wHandle' = "closed"
    /\ wpc' = "stat"
    /\ UNCHANGED <<wTarget, wFile, bytes_written, wi, wPrevBytes, wStat, fioVars, mainVars>>

\* final_size_in_bytes = filepath.stat().st_size; return ...
WStat ==
    /\ wpc = "stat"
    /\ wStat' = Len(wFile.data)
    /\ wpc' = "returned"
    /\ UNCHANGED <<wTarget, wFile, wHandle, bytes_written, wi, wPrevBytes, fioVars, mainVars>>

NextCsv == WCall \/ WHeader \/ WRecord \/ WClose \/ WStat

\* The interpreter runs write_csv_test to its end: a step that can be taken is taken.
SpecCsv == InitCsv /\ [][NextCsv]_vars /\ WF_vars(NextCsv)

(***************************************************************************)
(* run_fio_test on its own, over every report of at most MaxLines lines.   *)
(***************************************************************************)
InitFio ==
    /\ fioLines \in SeqsUpTo(LineSpecs, MaxLines)
    /\ fioRes = NoRes
    /\ InitCsvIdle /\ InitMainIdle

FioCall ==
    /\ fioRes = NoRes
    /\ fioRes' = run_fio_test(RenderOutput(fioLines))
    /\ UNCHANGED <<fioLines, csvVars, mainVars>>

NextFio == FioCall

SpecFio == InitFio /\ [][NextFio]_vars

(***************************************************************************)
(* The whole program: __main__, check_fio_installed, run_benchmarks,       *)
(* read_csv_test and save_results_to_csv.                                  *)
(*                                                                         *)
(* A working file is recorded by what wrote it: its kind, the size it was  *)
(* written for and the (size position, run) of the iteration that wrote    *)
(* it; PriorRun marks a file left behind by an earlier invocation.  The    *)
(* bytes write_csv_test puts into its file are the subject of SpecCsv.     *)
(***************************************************************************)
MaxSizes == 2
MaxRuns == 2

SizesMB == {1, 2}
BytesPerMB == 1024 * 1024
HwTags == {"", "nvme1"}

Configs == [loaded : {TRUE}, test_hw : HwTags,
            sizes_mB : SeqsUpTo(SizesMB, MaxSizes), num_runs : 0..MaxRuns]

\* TEST_SIZES = [size_mb * 1024**2 for size_mb in TEST_SIZES_MB]
TEST_SIZES == [k \in 1..Len(config.sizes_mB) |-> config.sizes_mB[k] * BytesPerMB]
NUM_RUNS == config.num_runs

\* file names inside test_dir
FixedName(n) == <<n, 0>>
CustomName(size) == <<"custom_write_.csv", size>>
ResultsName == FixedName("benchmark_results.csv")

PriorRun == <<0, 0>>
Content(kind, size, by) == [kind |-> kind, size |-> size, by |-> by]

\* what an earlier invocation may have left in the working directory
StaleDirs ==
    { EmptyDir,
      (CustomName(1 * BytesPerMB) :> Content("csv", 1 * BytesPerMB, PriorRun))
        @@ (ResultsName :> Content("results", 7, PriorRun)),
      (CustomName(3 * BytesPerMB) :> Content("csv", 3 * BytesPerMB, PriorRun))
        @@ (FixedName("seq_write_test") :> Content("fio", 3 * BytesPerMB, PriorRun)) }

\* the reports fio prints in a whole-program run
MainReports ==
    { <<>>,
      <<[kind |-> "status", num |-> [txt |-> <<>>, milli |-> -1], unit |-> <<>>, tail |-> FALSE],
        [kind |-> "bw", num |-> [txt |-> <<"1", "2", ".", "3">>, milli |-> 12300],
         unit |-> MiB, tail |-> TRUE]>>,
      <<[kind |-> "bw", num |-> [txt |-> <<"7">>, milli |-> 7000],
         unit |-> <<"K", "i", "B">>, tail |-> TRUE]>>,
      <<[kind |-> "bw", num |-> [txt |-> <<"x">>, milli |-> -1],
         unit |-> MiB, tail |-> FALSE]>>,
      <<[kind |-> "bare", num |-> [txt |-> <<>>, milli |-> -1], unit |-> <<>>,
         tail |-> FALSE]>> }

\* the throughput write_csv_test and read_csv_test compute from the clock
Rates == {5}

InitMain ==
    /\ pc = "start" /\ exitStatus = NoExit /\ exc = "none"
    /\ \E p \in {"Linux", "Darwin"}, f \in {"ok", "missing", "broken"}, d \in StaleDirs :
          /\ env = [platform |-> p, fio |-> f, fio0 |-> f, stale |-> DOMAIN d]
          /\ files = d
    /\ installAttempts = 0 /\ reported = FALSE /\ config = NoConfig /\ dirMade = FALSE
    /\ all_results = <<>> /\ sizeIdx = 0 /\ run = 0
    /\ fioOut = EmptyDir /\ fioLaunched = 0 /\ handle = NoHandle
    /\ readSnap = [files |-> EmptyDir, results |-> <<>>]
    /\ saves = 0 /\ table = <<>>
    /\ InitFioIdle /\ InitCsvIdle

\* sys.exit(status), or the interpreter ending on an uncaught exception e
Exit(status, e) ==
    /\ pc' = "exited"
    /\ exitStatus' = status
    /\ exc' = e

\* if platform.system() != "Linux": print(...); sys.exit(1)
CheckPlatform ==
    /\ pc = "start"
    /\ IF env.platform # "Linux"
       THEN Exit(1, "none") /\ reported' = TRUE
       ELSE pc' = "check_fio" /\ UNCHANGED <<exitStatus, exc, reported>>
    /\ UNCHANGED <<env, installAttempts, config, dirMade, files, all_results, sizeIdx,
                   run, fioOut, fioLaunched, handle, readSnap, saves, table,
                   fioVars, csvVars>>

\* check_fio_installed, the outer try: fio --version with check=True
VersionCheck ==
    /\ pc = "check_fio"
    /\ pc' = IF env.fio = "ok" THEN "load_config" ELSE "install"
    /\ UNCHANGED <<exitStatus, exc, env, installAttempts, reported, config, dirMade,
                   files, all_results, sizeIdx, run, fioOut, fioLaunched, handle,
                   readSnap, saves, table, fioVars, csvVars>>

\* check_fio_installed, the except branch: sudo apt install -y fio with check=True.
\* apt ends with an error status ("fails"), sudo cannot be launched ("nosudo"),
\* apt installs a working fio ("installs"), or apt ends with status 0 and fio is
\* as it was ("noeffect").
InstallAttempt ==
    /\ pc = "install"
    /\ installAttempts' = installAttempts + 1
    /\ \E apt \in {"fails", "nosudo", "installs", "noeffect"} :
          CASE apt = "fails" ->
                  Exit(1, "none") /\ reported' = TRUE /\ UNCHANGED env
            [] apt = "nosudo" ->
                  Exit(1, "FileNotFoundError") /\ UNCHANGED <<reported, env>>
            [] apt = "installs" ->
                  /\ pc' = "load_config"
                  /\ env' = [env EXCEPT !.fio = "ok"]
                  /\ UNCHANGED <<exitStatus, exc, reported>>
            [] apt = "noeffect" ->
                  /\ pc' = "load_config"
                  /\ UNCHANGED <<exitStatus, exc, reported, env>>
    /\ UNCHANGED <<config, dirMade, files, all_results, sizeIdx, run, fioOut,
                   fioLaunched, handle, readSnap, saves, table, fioVars, csvVars>>

\* config = yaml.safe_load(file); TEST_HW = config.get("test_hw", "");
\* if not TEST_HW: print(...); sys.exit(1)
LoadConfig ==
    /\ pc = "load_config"
    /\ \E c \in Configs :
          /\ config' = c
          /\ IF c.test_hw = ""
             THEN Exit(1, "none") /\ reported' = TRUE
             ELSE pc' = "run_benchmarks" /\ UNCHANGED <<exitStatus, exc, reported>>
    /\ UNCHANGED <<env, installAttempts, dirMade, files, all_results, sizeIdx, run,
                   fioOut, fioLaunched, handle, readSnap, saves, table, fioVars, csvVars>>

\* run_benchmarks: test_dir.mkdir(exist_ok=True); all_results = []
RunBenchmarksStart ==
    /\ pc = "run_benchmarks"
    /\ dirMade' = TRUE
    /\ all_results' = <<>>
    /\ sizeIdx' = 1
    /\ run' = 0
    /\ pc' = "loop"
    /\ UNCHANGED <<exitStatus, exc, env, installAttempts, reported, config, files,
                   fioOut, fioLaunched, handle, readSnap, saves, table, fioVars, csvVars>>

\* A faulty variant of LoopNext: the results are saved each time a size is finished.
LoopNext_SaveEachSize ==
    /\ pc = "loop"
    /\ IF sizeIdx > Len(TEST_SIZES)
       THEN pc' = "save" /\ UNCHANGED <<sizeIdx, run, saves, table, files>>
       ELSE IF run >= NUM_RUNS
            THEN /\ pc' = "loop" /\ sizeIdx' = sizeIdx + 1 /\ run' = 0
                 /\ saves' = saves + 1
                 /\ table' = <<<<"Test Type", "Data Size (MB)", "Run", "Result (MB/s)">>>>
                 /\ files' = (<<"benchmark_results.csv", 0>>
                                :> [kind |-> "results", size |-> 1, by |-> <<sizeIdx, 0>>])
                              @@ files
            ELSE pc' = "seq_write" /\ UNCHANGED <<sizeIdx, run, saves, table, files>>
    /\ UNCHANGED <<exitStatus, exc, env, installAttempts, reported, config, dirMade,
                   all_results, fioOut, fioLaunched, handle, readSnap,
                   fioVars, csvVars>>

\* for size in sizes: ... for run in range(num_runs): the loop headers
LoopNext ==
    /\ pc = "loop"
    /\ IF sizeIdx > Len(TEST_SIZES)
       THEN pc' = "save" /\ UNCHANGED <<sizeIdx, run>>
       ELSE IF run >= NUM_RUNS
            THEN pc' = "loop" /\ sizeIdx' = sizeIdx + 1 /\ run' = 0
            ELSE pc' = "seq_write" /\ UNCHANGED <<sizeIdx, run>>
    /\ UNCHANGED <<exitStatus, exc, env, installAttempts, reported, config, dirMade,
                   files, all_results, fioOut, fioLaunched, handle, readSnap, saves,
                   table, fioVars, csvVars>>

size == TEST_SIZES[sizeIdx]
\* size_mb = size / 1024**2
size_mb == size \div BytesPerMB

\* A faulty variant of AppendResult: the run index is recorded as range() gives it.
AppendResult_ZeroBased(label, value) ==
    all_results' = Append(all_results, <<label, size_mb, run, value>>)

\* all_results.append((label, size_mb, run + 1, value))
AppendResult(label, value) ==
    all_results' = Append(all_results, <<label, size_mb, run + 1, value>>)

\* the four run_fio_test calls of one iteration, in the order of the code
FioTests ==
    <<[at |-> "seq_write", name |-> "sequential_write", file |-> "seq_write_test",
       bs |-> "1M", rw |-> "write", label |-> "Sequential Write", next |-> "seq_read"],
      [at |-> "seq_read", name |-> "sequential_read", file |-> "seq_read_test",
       bs |-> "1M", rw |-> "read", label |-> "Sequential Read", next |-> "rand_write"],
      [at |-> "rand_write", name |-> "random_write", file |-> "rand_write_test",
       bs |-> "4K", rw |-> "randwrite", label |-> "Random Write", next |-> "rand_read"],
      [at |-> "rand_read", name |-> "random_read", file |-> "rand_read_test",
       bs |-> "4K", rw |-> "randread", label |-> "Random Read", next |-> "custom_write"]>>

\* One run_fio_test call and the append that follows it.  subprocess.run raises
\* FileNotFoundError when there is no fio to launch; otherwise fio prints a report
\* (within one invocation the same report for the same access pattern), lays out
\* its file unless it printed nothing, and the report is parsed.
RunFio(t) ==
    /\ pc = t.at
    /\ IF env.fio = "missing"
       THEN /\ Exit(1, "FileNotFoundError")
            /\ UNCHANGED <<fioOut, fioLaunched, files, all_results>>
       ELSE \E rep \in MainReports :
              /\ t.rw \in DOMAIN fioOut => rep = fioOut[t.rw]
              /\ fioOut' = (t.rw :> rep) @@ fioOut
              /\ fioLaunched' = fioLaunched + 1
              /\ files' = IF rep # <<>>
                          THEN (FixedName(t.file) :> Content("fio", size, <<sizeIdx, run + 1>>))
                               @@ files
                          ELSE files
              /\ LET r == run_fio_test(RenderOutput(rep))
                 IN  IF r.kind = "return"
                     THEN /\ AppendResult(t.label, r.val)
                          /\ pc' = t.next
                          /\ UNCHANGED <<exitStatus, exc>>
                     ELSE /\ Exit(1, r.exc)
                          /\ UNCHANGED all_results
    /\ UNCHANGED <<env, installAttempts, reported, config, dirMade, sizeIdx, run,
                   handle, readSnap, saves, table, fioVars, csvVars>>

SeqWrite == RunFio(FioTests[1])
SeqRead == RunFio(FioTests[2])
RandWrite == RunFio(FioTests[3])
RandRead == RunFio(FioTests[4])

\* test_dir / f"custom_write_{size}.csv", as write_csv_test is given it
WritePath(sz) == CustomName(sz)

\* A faulty variant of ReadPath: the read is pointed at a file keyed by the size in MB.
ReadPath_OtherKey(sz) == CustomName(sz \div BytesPerMB)

\* test_dir / f"custom_write_{size}.csv", as read_csv_test is given it
ReadPath(sz) == CustomName(sz)

\* write_csv_test(path, size) and the append that follows it.  The call returns
\* with the file regenerated, or an I/O error propagates: from open (nothing is
\* changed) or from a write (a truncated, partly written file is left).
CustomWrite ==
    /\ pc = "custom_write"
    /\ \/ \E rate \in Rates :
            /\ files' = (WritePath(size) :> Content("csv", size, <<sizeIdx, run + 1>>))
                        @@ files
            /\ AppendResult("Custom CSV Write", rate)
            /\ readSnap' = [files |-> files', results |-> all_results']
            /\ pc' = "custom_read"
            /\ UNCHANGED <<exitStatus, exc>>
       \/ /\ Exit(1, "OSError")
          /\ UNCHANGED <<files, all_results, readSnap>>
       \/ /\ files' = (WritePath(size) :> Content("partial", size, <<sizeIdx, run + 1>>))
                      @@ files
          /\ Exit(1, "OSError")
          /\ UNCHANGED <<all_results, readSnap>>
    /\ UNCHANGED <<env, installAttempts, reported, config, dirMade, sizeIdx, run,
                   fioOut, fioLaunched, handle, saves, table, fioVars, csvVars>>

\* read_csv_test: size_in_bytes = filepath.stat().st_size
ReadStat ==
    /\ pc = "custom_read"
    /\ IF ReadPath(size) \in DOMAIN files
       THEN pc' = "read_open" /\ UNCHANGED <<exitStatus, exc>>
       ELSE Exit(1, "FileNotFoundError")
    /\ UNCHANGED <<env, installAttempts, reported, config, dirMade, files, all_results,
                   sizeIdx, run, fioOut, fioLaunched, handle, readSnap, saves, table,
                   fioVars, csvVars>>

\* A faulty variant of OpenR: the file is opened with mode "w" and loses its contents.
OpenR_Truncate(dir, path) == (path :> Content("csv", 0, PriorRun)) @@ dir

\* filepath.open("r"): the directory after the open
OpenR(dir, path) == dir

\* read_csv_test: with filepath.open("r") as f:
ReadOpen ==
    /\ pc = "read_open"
    /\ files' = OpenR(files, ReadPath(size))
    /\ handle' = ReadPath(size)
    /\ pc' = "read_scan"
    /\ UNCHANGED <<exitStatus, exc, env, installAttempts, reported, config, dirMade,
                   all_results, sizeIdx, run, fioOut, fioLaunched, readSnap, saves,
                   table, fioVars, csvVars>>

\* read_csv_test: for _ in f: pass, and the end of the with block, which closes
\* the handle whether the scan ended or an I/O error propagates
ReadScan ==
    /\ pc = "read_scan"
    /\ handle' = NoHandle
    /\ \/ pc' = "read_ret" /\ UNCHANGED <<exitStatus, exc>>
       \/ Exit(1, "OSError")
    /\ UNCHANGED <<env, installAttempts, reported, config, dirMade, files, all_results,
                   sizeIdx, run, fioOut, fioLaunched, readSnap, saves, table,
                   fioVars, csvVars>>

\* read_csv_test returns its throughput; the driver appends it and the inner
\* loop moves to its next run
ReadReturn ==
    /\ pc = "read_ret"
    /\ \E rate \in Rates : AppendResult("Custom CSV Read", rate)
    /\ run' = run + 1
    /\ pc' = "loop"
    /\ UNCHANGED <<exitStatus, exc, env, installAttempts, reported, config, dirMade,
                   files, sizeIdx, fioOut, fioLaunched, handle, readSnap, saves, table,
                   fioVars, csvVars>>

Headers == <<"Test Type", "Data Size (MB)", "Run", "Result (MB/s)">>

\* one row as csv.writer writes it: the fields in tuple order, numbers as str()
CsvRow(rec) == <<rec[1], Str(rec[2]), Str(rec[3]), Str(rec[4])>>

\* A faulty variant of WriteRows: the header row is not written.
WriteRows_NoHeader(results) == [k \in 1..Len(results) |-> CsvRow(results[k])]

\* writer.writerow(headers); writer.writerows(results)
WriteRows(results) == <<Headers>> \o [k \in 1..Len(results) |-> CsvRow(results[k])]

\* save_results_to_csv(all_results, results_file), after which the script ends
SaveResults ==
    /\ pc = "save"
    /\ table' = WriteRows(all_results)
    /\ files' = (ResultsName :> Content("results", Len(all_results) + 1, <<sizeIdx, 0>>))
                @@ files
    /\ saves' = saves + 1
    /\ Exit(0, "none")
    /\ UNCHANGED <<env, installAttempts, reported, config, dirMade, all_results,
                   sizeIdx, run, fioOut, fioLaunched, handle, readSnap, fioVars, csvVars>>

Next ==
    \/ CheckPlatform \/ VersionCheck \/ InstallAttempt \/ LoadConfig
    \/ RunBenchmarksStart \/ LoopNext
    \/ SeqWrite \/ SeqRead \/ RandWrite \/ RandRead
    \/ CustomWrite \/ ReadStat \/ ReadOpen \/ ReadScan \/ ReadReturn
    \/ SaveResults

Spec == InitMain /\ [][Next]_vars

(***************************************************************************)
(* read_csv_test on its own: called in the first iteration of the driver,  *)
(* for every configuration, over directories in which the file it is       *)
(* given exists or does not.                                               *)
(***************************************************************************)
ReadNames == {CustomName(1 * BytesPerMB), CustomName(2 * BytesPerMB),
              FixedName("seq_write_test"), ResultsName}

ReadDirs == {[n \in D |-> Content("csv", n[2], PriorRun)] : D \in SUBSET ReadNames}

\* the five records the driver holds when it calls read_csv_test in iteration 1
FirstFive(mb) ==
    <<<<"Sequential Write", mb, 1, 0>>, <<"Sequential Read", mb, 1, 0>>,
      <<"Random Write", mb, 1, 0>>, <<"Random Read", mb, 1, 0>>,
      <<"Custom CSV Write", mb, 1, 5>>>>

InitRead ==
    /\ pc = "custom_read" /\ exitStatus = NoExit /\ exc = "none"
    /\ env = [platform |-> "Linux", fio |-> "ok", fio0 |-> "ok", stale |-> {}]
    /\ installAttempts = 0 /\ reported = FALSE /\ dirMade = TRUE
    /\ config \in {c \in Configs : c.test_hw # "" /\ c.sizes_mB # <<>> /\ c.num_runs > 0}
    /\ files \in ReadDirs
    /\ all_results = FirstFive(config.sizes_mB[1])
    /\ readSnap = [files |-> files, results |-> all_results]
    /\ sizeIdx = 1 /\ run = 0
    /\ fioOut = EmptyDir /\ fioLaunched = 4 /\ handle = NoHandle
    /\ saves = 0 /\ table = <<>>
    /\ InitFioIdle /\ InitCsvIdle

NextRead == ReadStat \/ ReadOpen \/ ReadScan

SpecRead == InitRead /\ [][NextRead]_vars

(***************************************************************************)
(* Properties.                                                             *)
(***************************************************************************)
SixLabels == <<"Sequential Write", "Sequential Read", "Random Write", "Random Read",
               "Custom CSV Write", "Custom CSV Read">>

Range(f) == {f[k] : k \in DOMAIN f}

Positions(label, mb, r) ==
    {p \in 1..Len(all_results) :
        all_results[p][1] = label /\ all_results[p][2] = mb /\ all_results[p][3] = r}

\* the order of the persisted sequence: position p belongs to iteration
\* (p - 1) \div 6, whose size position and run follow from the two loops
InLoopOrder ==
    /\ Len(all_results) = 6 * Len(config.sizes_mB) * NUM_RUNS
    /\ table = WriteRows(all_results)
    /\ \A p \in 1..Len(all_results) :
          LET it == (p - 1) \div 6
          IN  /\ all_results[p][1] = SixLabels[((p - 1) % 6) + 1]
              /\ all_results[p][2] = config.sizes_mB[(it \div NUM_RUNS) + 1]
              /\ all_results[p][3] = (it % NUM_RUNS) + 1
              /\ all_results[p][3] >= 1 /\ all_results[p][3] <= NUM_RUNS

\* C1 as stated: when run_benchmarks completes, the persisted sequence is, for each
\* size in configuration order and each run 1..numRuns, the six records in the fixed
\* order, and every (size, run) pair has each of the six test types exactly once.
C1_OncePerSizeAndRun ==
    saves = 1 =>
        /\ InLoopOrder
        /\ \A mb \in Range(config.sizes_mB), r \in 1..NUM_RUNS, t \in 1..6 :
              Cardinality(Positions(SixLabels[t], mb, r)) = 1

\* C1 as amended: when run_benchmarks completes (numRuns >= 0), the persisted sequence
\* is, for each position of the size list in order and each run 1..numRuns, the six
\* records in the fixed order; it holds 6 * |sizes| * numRuns records, every run index
\* is in 1..numRuns, and a (size, run) pair has each test type once per occurrence of
\* that size in the list.
C1_LoopOrder ==
    saves = 1 =>
        /\ InLoopOrder
        /\ \A mb \in Range(config.sizes_mB), r \in 1..NUM_RUNS, t \in 1..6 :
              Cardinality(Positions(SixLabels[t], mb, r))
                = Cardinality({k \in 1..Len(config.sizes_mB) : config.sizes_mB[k] = mb})

C1_Witness ==
    /\ saves = 1
    /\ Len(all_results) = 24
    /\ config.sizes_mB = <<2, 1>>

ParseErrors == {"UnboundLocalError", "ValueError", "IndexError"}

\* C2: whatever report the external tool prints, run_fio_test returns a number to the
\* driver and never raises; the driver goes on to the next step of the iteration.
C2_ParserNeverRaises == exc \notin ParseErrors

WrittenThisRun == ResultsName \in DOMAIN files /\ files[ResultsName].by # PriorRun

\* C3: the results file is written at most once, and only after the last step of the
\* last iteration has appended its record; while the process runs it has not been
\* written, and an invocation that aborts never writes it.
C3_SavedOnceAtEnd ==
    /\ saves <= 1
    /\ pc # "exited" => saves = 0 /\ ~WrittenThisRun /\ table = <<>>
    /\ (saves = 1 \/ WrittenThisRun) =>
          /\ exc = "none"
          /\ sizeIdx > Len(TEST_SIZES)
          /\ Len(all_results) = 6 * Len(TEST_SIZES) * NUM_RUNS
    /\ (pc = "exited" /\ exc # "none") => saves = 0 /\ ~WrittenThisRun /\ table = <<>>

C3_Witness ==
    /\ pc = "exited"
    /\ exc = "OSError"
    /\ Len(all_results) >= 6
    /\ saves = 0

\* the first line of the report that holds the marker BW=, 0 if there is none
FirstBW(specs) ==
    LET hits == {k \in 1..Len(specs) : specs[k].kind \in {"bw", "bare"}}
    IN  IF hits = {} THEN 0 ELSE CHOOSE k \in hits : \A j \in hits : k <= j

\* C4: run_fio_test derives its result from the first line that contains BW= and from
\* no other line: a value in MiB/s gives the number times 1024/1000, a value in MB/s
\* the number unchanged, and a report without BW= gives 0.0.
C4_FirstBandwidthLine ==
    fioRes # NoRes =>
        LET k == FirstBW(fioLines)
        IN  /\ k = 0 => fioRes = Ret(0)
            /\ k # 0 =>
                  LET ls == fioLines[k]
                  IN  /\ fioRes = run_fio_test(RenderLine(ls))
                      \* a number n is n.milli thousandths, a result counts millionths:
                      \* n * 1024/1000 is n.milli * 1024, and n is n.milli * 1000
                      /\ (ls.kind = "bw" /\ ls.unit = MiB /\ ls.num.milli >= 0)
                            => fioRes = Ret(ls.num.milli * 1024)
                      /\ (ls.kind = "bw" /\ ls.unit = MB /\ ls.num.milli >= 0)
                            => fioRes = Ret(ls.num.milli * 1000)

C4_Witness ==
    /\ Len(fioLines) = 2
    /\ fioLines[1].kind = "bw" /\ fioLines[1].unit = MiB /\ fioLines[1].num.milli = 12300
    /\ fioLines[2].kind = "bw" /\ fioLines[2].unit = MB /\ fioLines[2].num.milli = 7000
    /\ fioRes = Ret(12595200)

\* the header line followed by the records 0 .. n-1
RECURSIVE HeaderAndRecords(_)
HeaderAndRecords(n) ==
    IF n = 0 THEN Header ELSE HeaderAndRecords(n - 1) \o WriteStr(n - 1)

C5_FileAtReturn ==
    wpc = "returned" =>
        /\ wFile = File(HeaderAndRecords(wi))
        /\ wStat = Len(wFile.data)
        /\ wStat = bytes_written
        /\ wStat >= wTarget
        /\ wi > 0 => Len(HeaderAndRecords(wi - 1)) < wTarget
        /\ wi > 0 => wPrevBytes < wTarget

\* C5: for every target, write_csv_test terminates and leaves the header line followed
\* by the records 0, 1, 2, ... without a gap; the file's size equals the byte counter
\* and is at least the target; and the counter was below the target before the last
\* record was written.
C5_WriteCsv == []C5_FileAtReturn /\ ((wpc = "header") ~> (wpc = "returned"))

C5_Witness ==
    /\ wpc = "returned"
    /\ wi = 11
    /\ wStat > wTarget
    /\ wTarget > Len(Header)

BenchmarkPcs == {"loop", "seq_write", "seq_read", "rand_write", "rand_read",
                 "custom_write", "custom_read", "read_open", "read_scan", "read_ret",
                 "save"}

ToolUnavailableAfterAttempt == installAttempts > 0 /\ env.fio # "ok"

FatalStartUp ==
    \/ env.platform # "Linux"
    \/ ToolUnavailableAfterAttempt
    \/ (config.loaded /\ config.test_hw = "")

\* C6: each fatal start-up condition (platform, tool unavailable after the install
\* attempt, no test_hw) ends the process with a non-zero status before the driver
\* starts, the checks come in that order, and every other case exits with status 0.
C6_FatalStartUp ==
    /\ FatalStartUp =>
          /\ pc \notin BenchmarkPcs
          /\ ~dirMade /\ fioLaunched = 0 /\ all_results = <<>> /\ saves = 0
    /\ env.platform # "Linux" => installAttempts = 0 /\ ~config.loaded
    /\ (pc = "exited" /\ ToolUnavailableAfterAttempt) => ~config.loaded
    /\ pc = "exited" => (exitStatus # 0 <=> FatalStartUp)

\* C7: check_fio_installed attempts an installation only when the version check
\* fails, and only once; if the tool is still not invocable after the attempt, the
\* process reports and ends with a non-zero status without starting a benchmark step.
C7_InstallOnceThenStop ==
    /\ installAttempts <= 1
    /\ installAttempts = 1 => env.fio0 # "ok"
    /\ ToolUnavailableAfterAttempt =>
          /\ pc \notin BenchmarkPcs
          /\ fioLaunched = 0
          /\ pc = "exited" => exitStatus # 0 /\ (reported \/ exc # "none")

\* C8: save_results_to_csv writes N + 1 rows for N records: the header first, then one
\* row per record in order with the columns test type, size in MB, run, result; and
\* every test type is one of the six labels.
C8_TableRows ==
    saves = 1 =>
        /\ Len(table) = Len(all_results) + 1
        /\ table[1] = <<"Test Type", "Data Size (MB)", "Run", "Result (MB/s)">>
        /\ \A k \in 1..Len(all_results) :
              /\ table[k + 1][1] = all_results[k][1]
              /\ table[k + 1][1] \in Range(SixLabels)
              /\ table[k + 1][2] = Str(all_results[k][2])
              /\ table[k + 1][3] = Str(all_results[k][3])
              /\ table[k + 1][4] = Str(all_results[k][4])
              /\ Len(table[k + 1]) = 4

C8_Witness ==
    /\ saves = 1
    /\ Len(table) = 13
    /\ table[13][1] = "Custom CSV Read"

\* C9: read_csv_test leaves every file and the result sequence as they were when it
\* was called, has closed its handle when it returns or fails, and fails with
\* FileNotFoundError, changing nothing, when its file does not exist.
C9_ReadChangesNothing ==
    /\ pc \in {"custom_read", "read_open", "read_scan", "read_ret", "exited"} =>
          /\ files = readSnap.files
          /\ all_results = readSnap.results
    /\ pc \in {"read_ret", "exited"} => handle = NoHandle
    /\ ReadPath(size) \notin DOMAIN readSnap.files =>
          /\ pc \in {"custom_read", "exited"}
          /\ pc = "exited" => exc = "FileNotFoundError" /\ exitStatus # 0
    /\ pc = "read_ret" => ReadPath(size) \in DOMAIN readSnap.files

C9_Witness ==
    /\ pc = "read_ret"
    /\ handle = NoHandle
    /\ Cardinality(DOMAIN files) = 4
    /\ files = readSnap.files

FixedNames == {FixedName(FioTests[k].file) : k \in 1..4}

MadeThisRun == {n \in DOMAIN files : files[n].by # PriorRun}

ReadsOwnFile ==
    pc \in {"custom_read", "read_open", "read_scan", "read_ret"} =>
        /\ ReadPath(size) = WritePath(size)
        /\ ReadPath(size) \in DOMAIN files
        /\ files[ReadPath(size)] = Content("csv", size, <<sizeIdx, run + 1>>)

\* C10 as stated: the custom read finds the file the custom write of the same
\* iteration just produced, and after a complete run the working directory holds at
\* most 4 fixed-name files, one custom CSV per distinct size and the results file.
C10_DirectoryBound ==
    /\ ReadsOwnFile
    /\ saves = 1 =>
          Cardinality(DOMAIN files) <= 4 + Cardinality(Range(TEST_SIZES)) + 1

\* C10 as amended: the custom read finds the file the custom write of the same
\* iteration just produced; a complete run creates or overwrites at most the 4
\* fixed-name files, one custom CSV per distinct size and the results file, and the
\* directory holds these together with whatever earlier invocations left in it.
C10_OwnFilesBound ==
    /\ ReadsOwnFile
    /\ saves = 1 =>
          /\ MadeThisRun \subseteq
                FixedNames \cup {CustomName(s) : s \in Range(TEST_SIZES)} \cup {ResultsName}
          /\ Cardinality(MadeThisRun) <= 4 + Cardinality(Range(TEST_SIZES)) + 1
          /\ DOMAIN files = env.stale \cup MadeThisRun

C10_Witness ==
    /\ saves = 1
    /\ Cardinality(MadeThisRun) = 7
    /\ CustomName(1 * BytesPerMB) \in env.stale
    /\ CustomName(1 * BytesPerMB) \in MadeThisRun

====
